---- MODULE Spec2Model ----
(***************************************************************************)
(* m8db: assembler (src/src/parse.rs) and debugger VM (src/src/run.rs) of  *)
(* a small register machine.                                               *)
(*                                                                         *)
(* A source text is a sequence of lines, a line the sequence of its        *)
(* whitespace-separated tokens.  A token is a record [pre, body]: pre is   *)
(* the leading '.' or '#' when the token has one (else ""), body the rest. *)
(***************************************************************************)
EXTENDS Integers, Sequences, FiniteSets, TLC

\* ------------------------------------------------------------------ bounds

\* Every source text of up to MaxLines lines is loaded.
MaxLines == 2

\* The longest file whose program window is printed.
WindowLines == 13

\* usize::MAX, scaled down so that wraparound is reached.
UsizeMax == 5

\* ------------------------------------------------------------------ tokens

Tok(p, b) == [pre |-> p, body |-> b]
W(b) == Tok("", b)

\* Decimal numerals, Numeral[n + 1] is the text of n.
Numeral == <<"0", "1", "2", "3", "4", "5", "6", "7", "8", "9">>

\* str::parse::<usize>: the number a token spells, -1 for Err(ParseIntError).
ParseUsize(tok) ==
    IF tok.pre = "" /\ \E n \in 1..Len(Numeral) : Numeral[n] = tok.body
    THEN (CHOOSE n \in 1..Len(Numeral) : Numeral[n] = tok.body) - 1
    ELSE -1

\* Span::line_number
line_number(span) == span + 1

\* ------------------------------------------------------------- parse_line

NoErr == [span |-> 0, inner |-> "", num |-> 0, str |-> ""]
ParseErr(span, inner, num, str) ==
    [span |-> span, inner |-> inner, num |-> num, str |-> str]

Ir(k, r, n, l) == [k |-> k, r |-> r, n |-> n, l |-> l]
IrNone == Ir("None", 0, 0, "")

OkIr(ir) == [ok |-> TRUE, ir |-> ir, err |-> NoErr]
ErrIr(err) == [ok |-> FALSE, ir |-> IrNone, err |-> err]

\* next_register: the token after the keyword, parsed as a register index.
next_register(line, at, span) ==
    IF Len(line) < at
    THEN [ok |-> FALSE, r |-> 0, err |-> ParseErr(span, "NoRegister", 0, "")]
    ELSE IF ParseUsize(line[at]) < 0
         THEN [ok |-> FALSE, r |-> 0,
               err |-> ParseErr(span, "ParseIntErr", 0, line[at].body)]
         ELSE [ok |-> TRUE, r |-> ParseUsize(line[at]), err |-> NoErr]

\* The branch operand at position `at`: a line number when it parses as an
\* integer, a label name otherwise.
\* jump_target taking every operand for a label name.
jump_target_label(line, at, span, r, lineKind, labelKind) ==
    IF Len(line) < at
    THEN ErrIr(ParseErr(span, "NoLabelOrLine", 0, ""))
    ELSE OkIr(Ir(labelKind, r, 0, line[at].body))

jump_target(line, at, span, r, lineKind, labelKind) ==
    IF Len(line) < at
    THEN ErrIr(ParseErr(span, "NoLabelOrLine", 0, ""))
    ELSE IF ParseUsize(line[at]) >= 0
         THEN OkIr(Ir(lineKind, r, ParseUsize(line[at]), ""))
         ELSE OkIr(Ir(labelKind, r, 0, line[at].body))

parse_line(span, line) ==
    IF Len(line) = 0 THEN OkIr(IrNone)
    ELSE LET first == line[1] IN
      CASE first = W("INC") ->
             LET reg == next_register(line, 2, span) IN
             IF reg.ok THEN OkIr(Ir("Inc", reg.r, 0, "")) ELSE ErrIr(reg.err)
        [] first = W("DEC") ->
             LET reg == next_register(line, 2, span) IN
             IF reg.ok THEN OkIr(Ir("Dec", reg.r, 0, "")) ELSE ErrIr(reg.err)
        [] first = W("IS_ZERO") ->
             LET reg == next_register(line, 2, span) IN
             IF reg.ok
             THEN jump_target(line, 3, span, reg.r, "IsZeroLine", "IsZeroLabel")
             ELSE ErrIr(reg.err)
        [] first = W("JUMP") ->
             jump_target(line, 2, span, 0, "JumpLine", "JumpLabel")
        [] first = W("STOP") -> OkIr(Ir("Stop", 0, 0, ""))
        [] OTHER ->
             IF first.pre = "." THEN OkIr(Ir("Label", 0, 0, first.body))
             ELSE IF first.pre = "#" THEN OkIr(IrNone)
             ELSE ErrIr(ParseErr(span, "IllegalStmt", 0, first.body))

\* ------------------------------------------------------------------ parse

Stmt(op, r, index) == [op |-> op, r |-> r, index |-> index]

\* insert that keeps the binding a name already has.
insert_first(labels, name, idx) ==
    [x \in (DOMAIN labels) \cup {name} |->
        IF x \in DOMAIN labels THEN labels[x] ELSE idx]

\* HashMap::insert on the label table (a function from names to StmtIdx).
insert(labels, name, idx) ==
    [x \in (DOMAIN labels) \cup {name} |-> IF x = name THEN idx ELSE labels[x]]

NoLabels == [x \in {} |-> 0]

\* First loop of parse: classify every line, bind labels to the number of the
\* next statement, collect the statements with their spans; the first
\* parse_line error ends it.
RECURSIVE classify(_, _, _, _, _)
classify(code_lines, i, labels, ir_statements, statement_number) ==
    IF i > Len(code_lines)
    THEN [ok |-> TRUE, labels |-> labels, ir |-> ir_statements, err |-> NoErr]
    ELSE LET span == i - 1
             result == parse_line(span, code_lines[i])
         IN  IF ~result.ok
             THEN [ok |-> FALSE, labels |-> labels, ir |-> <<>>, err |-> result.err]
             ELSE IF result.ir.k = "Label"
             THEN classify(code_lines, i + 1,
                           insert(labels, result.ir.l, statement_number),
                           ir_statements, statement_number)
             ELSE IF result.ir.k = "None"
             THEN classify(code_lines, i + 1, labels, ir_statements,
                           statement_number)
             ELSE classify(code_lines, i + 1, labels,
                           Append(ir_statements, [stmt |-> result.ir, span |-> span]),
                           statement_number + 1)

\* Iterator::position: the least index (from 0) of an element satisfying
\* the test, -1 for None.
FirstAt(S) == IF S = {} THEN -1 ELSE (CHOOSE i \in S : \A j \in S : i <= j) - 1

\* resolve_line_number taking the line number for the statement's position.
resolve_line_number_direct(ir_statements, number, span) ==
    IF 1 <= number /\ number <= Len(ir_statements)
    THEN [ok |-> TRUE, idx |-> number - 1, err |-> NoErr]
    ELSE [ok |-> FALSE, idx |-> 0,
          err |-> ParseErr(span, "OutOfBoundsLineRef", number, "")]

resolve_line_number(ir_statements, number, span) ==
    LET at == FirstAt({i \in 1..Len(ir_statements) :
                          line_number(ir_statements[i].span) = number})
    IN  IF at >= 0
        THEN [ok |-> TRUE, idx |-> at, err |-> NoErr]
        ELSE [ok |-> FALSE, idx |-> 0,
              err |-> ParseErr(span, "OutOfBoundsLineRef", number, "")]

resolve_label(labels, span, label) ==
    IF label \in DOMAIN labels
    THEN [ok |-> TRUE, idx |-> labels[label], err |-> NoErr]
    ELSE [ok |-> FALSE, idx |-> 0,
          err |-> ParseErr(span, "LabelNotFound", 0, label)]

\* One statement of the second loop of parse.
resolve_stmt(ir_statements, labels, ir, span) ==
    LET target == IF ir.k \in {"IsZeroLine", "JumpLine"}
                  THEN resolve_line_number(ir_statements, ir.n, span)
                  ELSE IF ir.k \in {"IsZeroLabel", "JumpLabel"}
                  THEN resolve_label(labels, span, ir.l)
                  ELSE [ok |-> TRUE, idx |-> 0, err |-> NoErr]
        op == CASE ir.k = "Inc" -> "Inc"
                [] ir.k = "Dec" -> "Dec"
                [] ir.k \in {"IsZeroLine", "IsZeroLabel"} -> "IsZero"
                [] ir.k \in {"JumpLine", "JumpLabel"} -> "Jump"
                [] ir.k = "Stop" -> "Stop"
    IN  [ok |-> target.ok, stmt |-> Stmt(op, ir.r, target.idx), err |-> target.err]

\* resolve_all going on after an error and returning the last one.
RECURSIVE resolve_all_last(_, _, _, _)
resolve_all_last(ir_statements, labels, i, stmts) ==
    IF i > Len(ir_statements)
    THEN [ok |-> TRUE, stmts |-> stmts, err |-> NoErr]
    ELSE LET one == resolve_stmt(ir_statements, labels,
                                 ir_statements[i].stmt, ir_statements[i].span)
             rest == resolve_all_last(ir_statements, labels, i + 1,
                                      Append(stmts, one.stmt))
         IN  IF one.ok \/ ~rest.ok THEN rest
             ELSE [ok |-> FALSE, stmts |-> <<>>, err |-> one.err]

\* Second loop of parse: resolve the statements in order, the first error
\* ends it.
RECURSIVE resolve_all(_, _, _, _)
resolve_all(ir_statements, labels, i, stmts) ==
    IF i > Len(ir_statements)
    THEN [ok |-> TRUE, stmts |-> stmts, err |-> NoErr]
    ELSE LET one == resolve_stmt(ir_statements, labels,
                                 ir_statements[i].stmt, ir_statements[i].span)
         IN  IF one.ok
             THEN resolve_all(ir_statements, labels, i + 1, Append(stmts, one.stmt))
             ELSE [ok |-> FALSE, stmts |-> <<>>, err |-> one.err]

\* Display naming the span itself, which starts at 0.
Display_zero_based(err) ==
    [line |-> err.span, inner |-> err.inner, num |-> err.num, str |-> err.str]

\* Display for ParseErr: the diagnostic names the 1-based line of the span.
Display(err) ==
    [line |-> line_number(err.span), inner |-> err.inner,
     num |-> err.num, str |-> err.str]

NoDiag == [line |-> 0, inner |-> "", num |-> 0, str |-> ""]

\* parse with the spans numbered like the statements.
parse_dense_span(text) ==
    LET first == classify(text, 1, NoLabels, <<>>, 0)
        second == resolve_all(first.ir, first.labels, 1, <<>>)
    IN  IF ~first.ok
        THEN [ok |-> FALSE, stmts |-> <<>>, span |-> <<>>,
              code_lines |-> text, err |-> Display(first.err)]
        ELSE IF ~second.ok
        THEN [ok |-> FALSE, stmts |-> <<>>, span |-> <<>>,
              code_lines |-> text, err |-> Display(second.err)]
        ELSE [ok |-> TRUE, stmts |-> second.stmts,
              span |-> [i \in 1..Len(first.ir) |-> i - 1],
              code_lines |-> text, err |-> NoDiag]

\* parse: Ok(Code) or Err(diagnostic).
parse(text) ==
    LET first == classify(text, 1, NoLabels, <<>>, 0)
        second == resolve_all(first.ir, first.labels, 1, <<>>)
    IN  IF ~first.ok
        THEN [ok |-> FALSE, stmts |-> <<>>, span |-> <<>>,
              code_lines |-> text, err |-> Display(first.err)]
        ELSE IF ~second.ok
        THEN [ok |-> FALSE, stmts |-> <<>>, span |-> <<>>,
              code_lines |-> text, err |-> Display(second.err)]
        ELSE [ok |-> TRUE, stmts |-> second.stmts,
              span |-> [i \in 1..Len(first.ir) |-> first.ir[i].span],
              code_lines |-> text, err |-> NoDiag]

\* --------------------------------------------------------------- sessions

\* The source lines the loaded programs are written with.
INC0 == <<W("INC"), W("0")>>
INC1 == <<W("INC"), W("1")>>
DEC0 == <<W("DEC"), W("0")>>
ISZ0a == <<W("IS_ZERO"), W("0"), W("a")>>
ISZ0(n) == <<W("IS_ZERO"), W("0"), W(Numeral[n + 1])>>
JMP(n) == <<W("JUMP"), W(Numeral[n + 1])>>
JMPa == <<W("JUMP"), W("a")>>
STOP == <<W("STOP")>>
LABELa == <<Tok(".", "a")>>
BLANK == <<>>
COMMENT == <<Tok("#", "c")>>
ILLEGAL == <<W("FOO")>>

SessionLines == {INC0, DEC0, ISZ0a, JMP(1), JMPa, STOP, LABELa, BLANK}

\* The four-line program of the specification's concrete scenario.
Scenario == <<INC0, ISZ0(4), DEC0, STOP>>

Texts(lines, n) == UNION {[1..k -> lines] : k \in 1..n}

\* Programs with a comment line, a second register, a forward line target,
\* and a text that does not assemble.
MorePrograms ==
    {<<LABELa, INC0, JMPa>>, <<COMMENT, DEC0, ISZ0(2)>>, <<INC1, DEC0>>,
     <<JMP(2), ISZ0(1)>>, <<INC0, INC1, JMP(1)>>, <<ILLEGAL>>}

\* The files a load command can name.
Programs == Texts(SessionLines, MaxLines) \cup {Scenario} \cup MorePrograms

VARIABLES
    overflow_checks,  \* the build panics on integer overflow (debug profile)
    mode,             \* "load", "read", "debug", "run", "ended", "exit", "panic"
    code_lines, stmts, span, pc, registers, breakpoints,   \* Vm
    op,               \* the last command
    result,           \* the VmState the last step() or run() call returned
    prevPc,           \* pc when the last step() began
    resuming,         \* run() has not called step() yet
    runStart,         \* pc, registers, breakpoints and time_kind when run() was called
    break_line,       \* the line number the last command was break with, else -1
    out,              \* what print_program printed in the last command, if called
    diag,             \* the diagnostic of the last load, if it failed
    content           \* the text the last load read

vm == <<code_lines, stmts, span, pc, registers, breakpoints>>
vars == <<overflow_checks, mode, vm, op, result, prevPc, resuming, runStart,
          break_line, out, diag, content>>

\* Where a checked build panics, an unchecked one wraps.
\* Subtraction that saturates at 0 instead of wrapping.
saturating_sub1(x) == IF x = 0 THEN 0 ELSE x - 1
wrapping_sub1(x) == IF x = 0 THEN UsizeMax ELSE x - 1
wrapping_add1(x) == IF x = UsizeMax THEN 0 ELSE x + 1

Contains(seq, x) == \E i \in 1..Len(seq) : seq[i] = x

\* Vm::step from program counter p and registers regs: the VmState returned
\* ("Panic" when the call unwinds instead) and the pc and registers it leaves.
Outcome(state, p, regs) == [state |-> state, pc |-> p, registers |-> regs]

\* advance with the breakpoint test made on the pc before the increment.
advance_stale(p, regs, old_pc) ==
    IF p = UsizeMax /\ overflow_checks
    THEN Outcome("Panic", old_pc, regs)
    ELSE Outcome(IF Contains(breakpoints, p) THEN "Break" ELSE "Run",
                 wrapping_add1(p), regs)

\* self.pc.0 += 1 and the breakpoint test that ends step.
advance(p, regs, old_pc) ==
    IF p = UsizeMax /\ overflow_checks
    THEN Outcome("Panic", old_pc, regs)
    ELSE LET next == wrapping_add1(p)
         IN  Outcome(IF Contains(breakpoints, next) THEN "Break" ELSE "Run",
                     next, regs)

\* self.pc = StmtIdx(index.0 - 1)
branch(index, p, regs) ==
    IF index = 0 /\ overflow_checks
    THEN Outcome("Panic", p, regs)
    ELSE advance(wrapping_sub1(index), regs, p)

\* in_bounds off by one: the last statement is already out of bounds.
in_bounds_early(p) == p + 1 < Len(stmts)

\* self.stmts.get(pc.0) is Some
in_bounds(p) == p < Len(stmts)

\* on_stop that falls through to the increment of pc before returning.
on_stop_advancing(p, regs) == Outcome("Stop", wrapping_add1(p), regs)

\* Some(Stmt::Stop) => return VmState::Stop
on_stop(p, regs) == Outcome("Stop", p, regs)

\* step with the test of IsZero inverted: the branch is taken when the
\* register is not zero.
step_inverted(p, regs) ==
    IF ~in_bounds(p) THEN Outcome("OutOfBounds", p, regs)
    ELSE LET s == stmts[p + 1]
             r == s.r + 1
         IN  CASE s.op = "Inc" ->
                    IF regs[r] = UsizeMax /\ overflow_checks
                    THEN Outcome("Panic", p, regs)
                    ELSE advance(p, [regs EXCEPT ![r] = wrapping_add1(@)], p)
               [] s.op = "Dec" ->
                    IF regs[r] = 0 /\ overflow_checks
                    THEN Outcome("Panic", p, regs)
                    ELSE advance(p, [regs EXCEPT ![r] = wrapping_sub1(@)], p)
               [] s.op = "IsZero" ->
                    IF regs[r] # 0 THEN branch(s.index, p, regs)
                    ELSE advance(p, regs, p)
               [] s.op = "Jump" -> branch(s.index, p, regs)
               [] s.op = "Stop" -> on_stop(p, regs)

step(p, regs) ==
    IF ~in_bounds(p) THEN Outcome("OutOfBounds", p, regs)
    ELSE LET s == stmts[p + 1]
             r == s.r + 1
         IN  CASE s.op = "Inc" ->
                    IF regs[r] = UsizeMax /\ overflow_checks
                    THEN Outcome("Panic", p, regs)
                    ELSE advance(p, [regs EXCEPT ![r] = wrapping_add1(@)], p)
               [] s.op = "Dec" ->
                    IF regs[r] = 0 /\ overflow_checks
                    THEN Outcome("Panic", p, regs)
                    ELSE advance(p, [regs EXCEPT ![r] = wrapping_sub1(@)], p)
               [] s.op = "IsZero" ->
                    IF regs[r] = 0 THEN branch(s.index, p, regs)
                    ELSE advance(p, regs, p)
               [] s.op = "Jump" -> branch(s.index, p, regs)
               [] s.op = "Stop" -> on_stop(p, regs)

\* max_register
RegisterOf(stmt) == IF stmt.op \in {"Inc", "Dec", "IsZero"} THEN stmt.r ELSE 0
Max(S) == CHOOSE x \in S : \A y \in S : y <= x
\* max_register taking the register of the last statement for the greatest.
max_register_last(ss) == IF ss = <<>> THEN 0 ELSE RegisterOf(ss[Len(ss)])

max_register(ss) == Max({0} \cup {RegisterOf(ss[i]) : i \in 1..Len(ss)})

\* statement_at_span matching the span exactly, as branch targets are.
statement_at_span_exact(search_span) ==
    FirstAt({i \in 1..Len(span) : span[i] = search_span})

\* statement_at_span returning the span found instead of its position.
statement_at_span_value(search_span) ==
    LET at == FirstAt({i \in 1..Len(span) : span[i] >= search_span})
    IN  IF at < 0 THEN -1 ELSE span[at + 1]

\* Vm::statement_at_span: the first statement whose span is >= search_span.
statement_at_span(search_span) ==
    FirstAt({i \in 1..Len(span) : span[i] >= search_span})

\* Nothing printed by print_program.
NoOut == [kind |-> "None", lines |-> <<>>]

\* print_program without the clipping of the window at the end of the file.
print_program_unclipped(p) ==
    IF p < Len(span)
    THEN LET span_pc == span[p + 1]
             lower == IF span_pc < 5 THEN 0 ELSE span_pc - 5
             higher == span_pc + 6
         IN  IF \E line_index \in lower..(higher - 1) : line_index >= Len(code_lines)
             THEN [kind |-> "panic", lines |-> <<>>]
             ELSE [kind |-> "window",
                   lines |-> [k \in 1..(higher - lower) |->
                                 [number |-> line_number(lower + k - 1),
                                  marked |-> (lower + k - 1 = span_pc),
                                  text |-> code_lines[lower + k]]]]
    ELSE [kind |-> "end", lines |-> <<>>]

\* print_program with pc = p: the lines lower..higher of code_lines, each with
\* its line number, the one of the span of pc marked ("panic" when
\* code_lines[line_index] is out of range), or "Reached the end of the
\* program." when span has no entry for pc.  A span is the index of a line
\* in memory, so span_pc + 6 is far from usize::MAX.
print_program(p) ==
    IF p < Len(span)
    THEN LET span_pc == span[p + 1]
             lower == IF span_pc < 5 THEN 0 ELSE span_pc - 5
             higher == IF Len(code_lines) < span_pc + 6
                       THEN Len(code_lines) ELSE span_pc + 6
         IN  IF \E line_index \in lower..(higher - 1) : line_index >= Len(code_lines)
             THEN [kind |-> "panic", lines |-> <<>>]
             ELSE [kind |-> "window",
                   lines |-> [k \in 1..(higher - lower) |->
                                 [number |-> line_number(lower + k - 1),
                                  marked |-> (lower + k - 1 = span_pc),
                                  text |-> code_lines[lower + k]]]]
    ELSE [kind |-> "end", lines |-> <<>>]

NoStart == [pc |-> 0, registers |-> <<>>, breakpoints |-> <<>>, time_kind |-> "None"]

\* No Vm: before the first load, and once run has returned.
NoVm ==
    /\ code_lines = <<>> /\ stmts = <<>> /\ span = <<>>
    /\ pc = 0 /\ registers = <<>> /\ breakpoints = <<>>
    /\ result = "None" /\ prevPc = 0
    /\ resuming = FALSE /\ runStart = NoStart

Init ==
    /\ overflow_checks \in BOOLEAN
    /\ mode = "load"
    /\ NoVm
    /\ op = "start"
    /\ break_line = -1
    /\ out = NoOut
    /\ diag = NoDiag
    /\ content = <<>>

\* read_and_run: std::fs::read_to_string returned the text of the file.
ReadFile ==
    /\ mode = "load"
    /\ mode' = "read"
    /\ content' \in Programs
    /\ op' = "load"
    /\ UNCHANGED <<overflow_checks, vm, result, prevPc, resuming, runStart,
                   break_line, out, diag>>

\* Assemble that starts the session on what it has whether parse failed
\* or not.
Assemble_runs_anyway ==
    /\ mode = "read"
    /\ LET code == parse(content)
       IN  /\ mode' = "debug"
           /\ code_lines' = code.code_lines
           /\ stmts' = code.stmts
           /\ span' = code.span
           /\ pc' = 0
           /\ registers' = [i \in 1..(max_register(code.stmts) + 1) |-> 0]
           /\ breakpoints' = <<>>
           /\ diag' = code.err
    /\ UNCHANGED <<overflow_checks, op, result, prevPc, resuming, runStart,
                   break_line, out, content>>

\* read_and_run, then: parse, and run's construction of the Vm, or the
\* diagnostic and back to the loop of start.
Assemble ==
    /\ mode = "read"
    /\ LET code == parse(content)
       IN  IF code.ok
           THEN /\ mode' = "debug"
                /\ code_lines' = code.code_lines
                /\ stmts' = code.stmts
                /\ span' = code.span
                /\ pc' = 0
                /\ registers' = [i \in 1..(max_register(code.stmts) + 1) |-> 0]
                /\ breakpoints' = <<>>
                /\ diag' = NoDiag
           ELSE /\ mode' = "load"
                /\ diag' = code.err
                /\ UNCHANGED vm
    /\ UNCHANGED <<overflow_checks, op, result, prevPc, resuming, runStart,
                   break_line, out, content>>

\* read_and_run on a file that cannot be read.
LoadUnreadable ==
    /\ mode = "load"
    /\ op' = "load"
    /\ diag' = [NoDiag EXCEPT !.inner = "error while reading file"]
    /\ content' = <<>>
    /\ UNCHANGED <<overflow_checks, mode, vm, result, prevPc, resuming, runStart,
                   break_line, out>>

\* loading_input: quit.
QuitLoad ==
    /\ mode = "load"
    /\ mode' = "exit"
    /\ op' = "quit"
    /\ UNCHANGED <<overflow_checks, vm, result, prevPc, resuming, runStart,
                   break_line, out, diag, content>>

\* ---------------------------------------------------------- debug session

\* ModeAfter with the Stop arm prompting again instead of leaving the loop.
ModeAfter_stop_prompts(state) ==
    CASE state = "OutOfBounds" -> "ended"
      [] state = "Panic" -> "panic"
      [] OTHER -> "debug"

\* The match on the VmState in run: Stop and OutOfBounds leave the loop of
\* run, Break and Run prompt again; a panic ends the process.
ModeAfter(state) ==
    CASE state \in {"Stop", "OutOfBounds"} -> "ended"
      [] state = "Panic" -> "panic"
      [] OTHER -> "debug"

\* "s" | "step": VmInstruction::Step.
StepCmd ==
    /\ mode = "debug"
    /\ LET o == step(pc, registers)
       IN  /\ pc' = o.pc
           /\ registers' = o.registers
           /\ result' = o.state
           /\ mode' = ModeAfter(o.state)
           /\ out' = IF o.state = "OutOfBounds" THEN print_program(o.pc) ELSE NoOut
    /\ op' = "step"
    /\ prevPc' = pc
    /\ runStart' = NoStart
    /\ break_line' = -1
    /\ UNCHANGED <<overflow_checks, code_lines, stmts, span, breakpoints,
                   resuming, diag, content>>

\* "c" | "continue": VmInstruction::Run(time_kind), entering Vm::run.
ContinueCmd ==
    /\ mode = "debug"
    /\ \E time_kind \in {"WithTime", "WithoutTime"} :
         runStart' = [pc |-> pc, registers |-> registers,
                      breakpoints |-> breakpoints, time_kind |-> time_kind]
    /\ mode' = "run"
    /\ resuming' = TRUE
    /\ op' = "continue"
    /\ break_line' = -1
    /\ out' = NoOut
    /\ UNCHANGED <<overflow_checks, vm, result, prevPc, diag, content>>

\* RunReturns with Break missing from the pattern.
RunReturns_no_break(state) == state \in {"Stop", "OutOfBounds"}

\* RunReturns with every state returned at once.
RunReturns_first(state) == state \in {"Run", "Break", "Stop", "OutOfBounds"}

\* The states on which Vm::run returns.
RunReturns(state) == state \in {"Break", "Stop", "OutOfBounds"}

\* One iteration of the loop of Vm::run, and run's match on what it returns.
RunLoop ==
    /\ mode = "run"
    /\ LET o == step(pc, registers)
       IN  /\ pc' = o.pc
           /\ registers' = o.registers
           /\ result' = o.state
           /\ mode' = IF RunReturns(o.state) \/ o.state = "Panic"
                      THEN ModeAfter(o.state) ELSE "run"
           /\ out' = IF o.state = "OutOfBounds" THEN print_program(o.pc) ELSE NoOut
    /\ prevPc' = pc
    /\ resuming' = FALSE
    /\ UNCHANGED <<overflow_checks, code_lines, stmts, span, breakpoints,
                   op, runStart, break_line, diag, content>>

\* Vec::remove
Remove(seq, at) == [i \in 1..(Len(seq) - 1) |-> IF i < at THEN seq[i] ELSE seq[i + 1]]

\* Toggle that pushes the index whether it is present or not.
Toggle_push(points, line) == Append(points, line)

\* VmInstruction::Break(line): push the index, or remove it when present.
Toggle(points, line) ==
    LET position == FirstAt({i \in 1..Len(points) : points[i] = line})
    IN  IF position < 0 THEN Append(points, line)
        ELSE Remove(points, position + 1)

\* The line numbers, registers and values the commands are given.
BreakLines == 0..(MaxLines + 3)
SetRegisters == 0..2
SetValues == {0, 1, UsizeMax}

\* "b" | "break" <line>: LineNumber(line).span(), statement_at_span, then the
\* toggle, or the out-of-bounds message.
BreakAt(line) ==
    /\ mode = "debug"
    /\ IF line = 0 /\ overflow_checks
       THEN /\ mode' = "panic"
            /\ op' = "break"
            /\ UNCHANGED breakpoints
       ELSE LET stmt_pos == statement_at_span(wrapping_sub1(line))
            IN  IF stmt_pos < 0
                THEN /\ op' = "rejected"
                     /\ UNCHANGED <<mode, breakpoints>>
                ELSE /\ breakpoints' = Toggle(breakpoints, stmt_pos)
                     /\ op' = "break"
                     /\ UNCHANGED mode
    /\ runStart' = NoStart
    /\ break_line' = line
    /\ out' = NoOut
    /\ UNCHANGED <<overflow_checks, code_lines, stmts, span, pc, registers,
                   result, prevPc, resuming, diag, content>>

BreakCmd == \E line \in BreakLines : BreakAt(line)

\* SetTo writing register 0 whichever register is named.
SetTo_first(r, value) ==
    /\ mode = "debug"
    /\ IF r + 1 > Len(registers)
       THEN /\ mode' = "panic"
            /\ UNCHANGED registers
       ELSE /\ registers' = [registers EXCEPT ![1] = value]
            /\ UNCHANGED mode
    /\ op' = "set"
    /\ runStart' = NoStart
    /\ break_line' = -1
    /\ out' = NoOut
    /\ UNCHANGED <<overflow_checks, code_lines, stmts, span, pc, breakpoints,
                   result, prevPc, resuming, diag, content>>

\* "set" <register> <value>: vm.registers[r.0] = value.
SetTo(r, value) ==
    /\ mode = "debug"
    /\ IF r + 1 > Len(registers)
       THEN /\ mode' = "panic"
            /\ UNCHANGED registers
       ELSE /\ registers' = [registers EXCEPT ![r + 1] = value]
            /\ UNCHANGED mode
    /\ op' = "set"
    /\ runStart' = NoStart
    /\ break_line' = -1
    /\ out' = NoOut
    /\ UNCHANGED <<overflow_checks, code_lines, stmts, span, pc, breakpoints,
                   result, prevPc, resuming, diag, content>>

SetCmd == \E r \in SetRegisters, value \in SetValues : SetTo(r, value)

\* The commands debug_input answers itself: register, program, help, break
\* without a line.
Inspections == {"register", "program", "help", "break"}

InspectCmd ==
    /\ mode = "debug"
    /\ \E cmd \in Inspections :
          /\ op' = "inspect"
          /\ out' = IF cmd = "program" THEN print_program(pc) ELSE NoOut
          /\ mode' = IF cmd = "program" /\ print_program(pc).kind = "panic"
                     THEN "panic" ELSE mode
    /\ runStart' = NoStart
    /\ break_line' = -1
    /\ UNCHANGED <<overflow_checks, vm, result, prevPc, resuming, diag, content>>

\* The commands debug_input rejects: an unknown command, a break or a set whose
\* arguments do not parse.
Rejections == {"unknown command", "break x", "set x"}

RejectCmd ==
    /\ mode = "debug"
    /\ \E cmd \in Rejections : op' = "rejected"
    /\ runStart' = NoStart
    /\ break_line' = -1
    /\ out' = NoOut
    /\ UNCHANGED <<overflow_checks, mode, vm, result, prevPc, resuming, diag, content>>

\* "q" | "quit": VmInstruction::Stop.
QuitCmd ==
    /\ mode = "debug"
    /\ mode' = "ended"
    /\ op' = "quit"
    /\ runStart' = NoStart
    /\ break_line' = -1
    /\ out' = NoOut
    /\ UNCHANGED <<overflow_checks, vm, result, prevPc, resuming, diag, content>>

\* run returns to the loop of start, the Vm is dropped.
Return ==
    /\ mode = "ended"
    /\ mode' = "load"
    /\ code_lines' = <<>> /\ stmts' = <<>> /\ span' = <<>>
    /\ pc' = 0 /\ registers' = <<>> /\ breakpoints' = <<>>
    /\ result' = "None" /\ prevPc' = 0
    /\ resuming' = FALSE /\ runStart' = NoStart
    /\ break_line' = -1
    /\ out' = NoOut
    /\ UNCHANGED <<overflow_checks, op, diag, content>>

Next ==
    \/ ReadFile
    \/ Assemble
    \/ LoadUnreadable
    \/ QuitLoad
    \/ StepCmd
    \/ ContinueCmd
    \/ RunLoop
    \/ BreakCmd
    \/ SetCmd
    \/ InspectCmd
    \/ RejectCmd
    \/ QuitCmd
    \/ Return

Spec == Init /\ [][Next]_vars

\* -------------------------------------------------------------- assembler

\* The lines of the texts given to the assembler alone: every keyword with
\* and without its operands, line numbers from 0 to past the end, a defined
\* and an undefined label, a label whose name is a numeral.
LineNumbers == 0..(MaxLines + 2)

AsmLines ==
    {INC0, INC1, DEC0, <<W("INC")>>, <<W("DEC"), W("x")>>,
     ISZ0a, <<W("IS_ZERO"), W("0")>>,
     JMPa, <<W("JUMP"), W("b")>>, <<W("JUMP")>>,
     STOP, LABELa, <<Tok(".", "1")>>, BLANK, COMMENT, ILLEGAL}
        \cup {JMP(n) : n \in LineNumbers}
        \cup {ISZ0(n) : n \in {0, 1, MaxLines + 1}}

AsmTexts == Texts(AsmLines, MaxLines + 1)

\* The assembler on every text of AsmTexts.
InitAsm ==
    /\ overflow_checks \in BOOLEAN
    /\ mode = "read"
    /\ NoVm
    /\ op = "load"
    /\ break_line = -1
    /\ out = NoOut
    /\ diag = NoDiag
    /\ content \in AsmTexts

NextAsm == Assemble \/ QuitCmd \/ Return

SpecAsm == InitAsm /\ [][NextAsm]_vars

\* --------------------------------------------------------- program window

\* Files of up to WindowLines lines, longer than the window: INC 0 on line a,
\* DEC 0 on a line b after it or no second instruction (b = a), comments and
\* blank lines elsewhere, for every a and b.
WindowText(n, a, b) ==
    [k \in 1..n |-> IF k = a THEN INC0
                    ELSE IF k = b THEN DEC0
                    ELSE IF k % 2 = 0 THEN COMMENT ELSE BLANK]

WindowTexts ==
    UNION {UNION {{WindowText(n, a, b) : b \in a..n} : a \in 1..n} :
              n \in 1..WindowLines}

\* A session of step and inspection commands on each of these files.
InitWindow ==
    /\ overflow_checks \in BOOLEAN
    /\ mode = "read"
    /\ NoVm
    /\ op = "load"
    /\ break_line = -1
    /\ out = NoOut
    /\ diag = NoDiag
    /\ content \in WindowTexts

NextWindow == Assemble \/ StepCmd \/ InspectCmd \/ Return

SpecWindow == InitWindow /\ [][NextWindow]_vars

\* ----------------------------------------------------------------- claims

\* Vm::step is called: by the step command or by an iteration of Vm::run.
StepCalled == StepCmd \/ RunLoop

\* The statement Vm::step reads at the current pc is of one of the kinds.
At(kinds) == pc < Len(stmts) /\ stmts[pc + 1].op \in kinds

\* C1: in every produced Program each target of an IsZero or a Jump is an
\* index t with 0 <= t < number of instructions, for line targets and for
\* label targets, wherever the label is defined.
C1_TargetsAreInstructionIndices ==
    \A i \in 1..Len(stmts) :
        stmts[i].op \in {"IsZero", "Jump"} =>
            0 <= stmts[i].index /\ stmts[i].index < Len(stmts)

\* C2: a step that executes Jump(t) completes without error, for every
\* resolved t and t = 0 too, and leaves pc = t and the registers as they were.
C2_JumpSetsPc ==
    [][(StepCalled /\ At({"Jump"})) =>
          /\ result' \in {"Run", "Break"}
          /\ mode' \in {"debug", "run"}
          /\ pc' = stmts[pc + 1].index
          /\ registers' = registers]_vars

\* C3: a step that executes IsZero(r, t) leaves pc = t when registers[r] = 0
\* (for every resolved t, t = 0 too) and pc = old pc + 1 otherwise, and
\* changes no register.
C3_IsZeroBranches ==
    [][(StepCalled /\ At({"IsZero"})) =>
          /\ pc' = IF registers[stmts[pc + 1].r + 1] = 0
                   THEN stmts[pc + 1].index ELSE pc + 1
          /\ registers' = registers]_vars

\* C4 (as claimed): run executes the instruction at a breakpoint index only
\* when it resumes there after run or step returned Break at that index.
C4_BreakpointExecutedOnlyAfterBreak ==
    [][(RunLoop /\ At({"Inc", "Dec", "IsZero", "Jump", "Stop"})
           /\ Contains(breakpoints, pc)) =>
          (resuming /\ result = "Break")]_vars

\* C4 (amended): the only instruction at a breakpoint index that run executes
\* is the first one of the call, the one at the pc run was called with; when
\* run arrives at a breakpoint index from another instruction it returns Break
\* with pc at that index, and the instruction there is not executed.
C4_BreakpointExecutedOnlyFirst ==
    [][RunLoop =>
          /\ (At({"Inc", "Dec", "IsZero", "Jump", "Stop"})
                 /\ Contains(breakpoints, pc)) => resuming
          /\ (result' \in {"Run", "Break"} /\ Contains(breakpoints, pc')) =>
                 (result' = "Break" /\ mode' = "debug")]_vars

\* A run called at a breakpoint index where no Break was returned executed
\* the instruction there and went on to the Break of another breakpoint.
C4_Witness ==
    /\ op = "continue" /\ mode = "debug" /\ result = "Break"
    /\ Contains(breakpoints, runStart.pc)
    /\ runStart.pc < Len(stmts)
    /\ pc # runStart.pc

\* The registers after the statement s alone has acted on regs.
C5_After(s, regs) ==
    CASE s.op = "Inc" -> [regs EXCEPT ![s.r + 1] = wrapping_add1(@)]
      [] s.op = "Dec" -> [regs EXCEPT ![s.r + 1] = wrapping_sub1(@)]
      [] OTHER -> regs

\* C5: a step that executes Inc, Dec, IsZero or Jump returns Break if and only
\* if the new pc is in the breakpoint set, and Run otherwise; a run that
\* reaches a breakpoint index from another instruction returns Break with pc
\* there and the registers showing only the instructions before it.
C5_BreakIffNewPcIsBreakpoint ==
    [][(StepCalled /\ At({"Inc", "Dec", "IsZero", "Jump"}) /\ result' # "Panic") =>
          /\ result' = IF Contains(breakpoints, pc') THEN "Break" ELSE "Run"
          /\ registers' = C5_After(stmts[pc + 1], registers)
          /\ (RunLoop /\ result' = "Break") => mode' = "debug"]_vars

\* The scenario with a breakpoint on line 3: run from pc 0 returned Break at
\* index 2, before DEC 0 acted.
C5_Witness ==
    /\ content = Scenario /\ op = "continue" /\ mode = "debug"
    /\ result = "Break" /\ runStart.pc = 0
    /\ pc = 2 /\ breakpoints = <<2>> /\ registers = <<1>>

\* C6: a step that executes Dec(r) with registers[r] = 0 is no error: it
\* completes, registers[r] is the greatest unsigned value, pc has advanced by
\* one and the session goes on.
C6_DecOfZeroWraps ==
    [][(StepCalled /\ At({"Dec"}) /\ registers[stmts[pc + 1].r + 1] = 0) =>
          /\ result' \in {"Run", "Break"}
          /\ mode' \in {"debug", "run"}
          /\ registers'[stmts[pc + 1].r + 1] = UsizeMax
          /\ pc' = pc + 1]_vars

\* C7: a step that returns Stop or OutOfBounds leaves pc, the registers and
\* the breakpoints as they were; Stop is returned at a Stop statement and
\* only there, so the program that is one STOP stops on its first step.
C7_TerminalStepChangesNothing ==
    [][StepCalled =>
          /\ result' \in {"Stop", "OutOfBounds"} =>
                 (pc' = pc /\ registers' = registers /\ breakpoints' = breakpoints)
          /\ (result' = "Stop") <=> At({"Stop"})]_vars

\* The program that is one STOP, stepped once: Stop, pc 0, register 0 zero.
C7_Witness ==
    /\ content = <<STOP>> /\ stmts = <<Stmt("Stop", 0, 0)>>
    /\ result = "Stop" /\ mode = "ended" /\ op \in {"step", "continue"}
    /\ pc = 0 /\ registers = <<0>>

\* C8: step returns OutOfBounds exactly when pc >= number of instructions as
\* the step begins; the step that executes a last instruction which does not
\* branch returns Run or Break with pc = number of instructions.
C8_OutOfBoundsOnlyPastTheEnd ==
    [][StepCalled =>
          /\ (result' = "OutOfBounds") <=> (pc >= Len(stmts))
          /\ (/\ pc = Len(stmts) - 1
              /\ \/ At({"Inc", "Dec"})
                 \/ (At({"IsZero"}) /\ registers[stmts[pc + 1].r + 1] # 0)
              /\ result' # "Panic") =>
                 (result' \in {"Run", "Break"} /\ pc' = Len(stmts))]_vars

\* A program without STOP or branch ran off its end: the step at the last
\* instruction left pc = number of instructions, the next one returned
\* OutOfBounds.
C8_Witness ==
    /\ Len(stmts) > 1
    /\ \A i \in 1..Len(stmts) : stmts[i].op \in {"Inc", "Dec"}
    /\ result = "OutOfBounds" /\ mode = "ended"
    /\ prevPc = Len(stmts) /\ pc = Len(stmts)

\* The most steps a returning run takes: the number of pairs of a program
\* counter and register values.
RECURSIVE C9_Power(_, _)
C9_Power(b, e) == IF e = 0 THEN 1 ELSE b * C9_Power(b, e - 1)
C9_Fuel == (Len(stmts) + 1) * C9_Power(UsizeMax + 1, Len(registers))

\* step called again and again from (p, regs), up to the first call whose
\* result is not Run.
RECURSIVE C9_StepUntil(_, _, _)
C9_StepUntil(p, regs, fuel) ==
    LET o == step(p, regs)
    IN  IF o.state # "Run" \/ fuel = 0 THEN o
        ELSE C9_StepUntil(o.pc, o.registers, fuel - 1)

\* C9: run returns Break, Stop or OutOfBounds, never Run, and the pc,
\* registers, breakpoints and result it returns with are those of calling step
\* from the state run was called in up to the first result that is not Run,
\* with and without timing.
C9_RunIsRepeatedStep ==
    (op = "continue" /\ mode \in {"debug", "ended"}) =>
        LET o == C9_StepUntil(runStart.pc, runStart.registers, C9_Fuel)
        IN  /\ result \in {"Break", "Stop", "OutOfBounds"}
            /\ result = o.state
            /\ pc = o.pc
            /\ registers = o.registers
            /\ breakpoints = runStart.breakpoints

\* A timed run returned Break after more than one step.
C9_Witness ==
    /\ op = "continue" /\ mode = "debug" /\ result = "Break"
    /\ runStart.time_kind = "WithTime"
    /\ registers # runStart.registers
    /\ pc # runStart.pc /\ prevPc # runStart.pc

\* The commands of the debug session, and the steps of a run under way.
C10_Command ==
    StepCmd \/ ContinueCmd \/ BreakCmd \/ SetCmd \/ InspectCmd \/ RejectCmd
        \/ QuitCmd

\* C10: once a step or a continue has produced Stop or OutOfBounds the session
\* of that program is over: control goes back to the load loop, step is not
\* called again and no debugger command is accepted; after Break the session
\* prompts again on the machine state the step left.
C10_StopAndOutOfBoundsEndTheSession ==
    /\ [][StepCalled =>
             /\ result' \in {"Stop", "OutOfBounds"} => mode' = "ended"
             /\ result' = "Break" => mode' = "debug"]_vars
    /\ [](mode = "debug" => ENABLED C10_Command)
    /\ [][mode = "ended" => (mode' = "load" /\ stmts' = <<>>)]_vars
    /\ [](mode \in {"ended", "load", "read"} =>
             ~ENABLED (C10_Command \/ RunLoop))

\* A Stop or OutOfBounds of step or run has brought control back to the load
\* loop.
C10_Witness ==
    /\ mode = "load" /\ op \in {"step", "continue"} /\ stmts = <<>>

\* The indices in the breakpoint list.
Members(points) == {points[i] : i \in 1..Len(points)}

\* The 1-based source line is one an instruction was assembled from: not
\* blank, not a comment, not a label definition.
InstructionLine(text, n) ==
    /\ n \in 1..Len(text)
    /\ text[n] # <<>>
    /\ text[n][1].pre = ""

\* The instruction indices (from 0) whose source line number is >= L.
C11_AtOrAfter(L) == {i \in 0..(Len(span) - 1) : line_number(span[i + 1]) >= L}

\* C11: break with the line number L >= 1 acts on the smallest instruction
\* index whose source line number is >= L, and every line from L up to that
\* instruction's line is a blank, comment or label line; when no instruction
\* has a line number >= L the command is rejected and the breakpoints are as
\* they were.
C11_BreakResolvesToNextInstruction ==
    [][(break_line' >= 1 /\ BreakAt(break_line')) =>
          LET L == break_line'
          IN  IF C11_AtOrAfter(L) = {}
              THEN op' = "rejected" /\ breakpoints' = breakpoints
                       /\ mode' = "debug"
              ELSE LET i == CHOOSE x \in C11_AtOrAfter(L) :
                                 \A y \in C11_AtOrAfter(L) : x <= y
                   IN  /\ op' = "break"
                       /\ (i \in Members(breakpoints')) # (i \in Members(breakpoints))
                       /\ InstructionLine(code_lines, line_number(span[i + 1]))
                       /\ \A n \in L..(line_number(span[i + 1]) - 1) :
                              ~InstructionLine(code_lines, n)]_vars

\* A break on the comment line 1 was resolved to the instruction of line 2.
C11_Witness ==
    /\ mode = "debug" /\ content = <<COMMENT, DEC0, ISZ0(2)>>
    /\ op = "break" /\ break_line = 1 /\ breakpoints = <<0>>

\* C12: a break command that resolves to the index i removes i from the
\* breakpoints when it is there and inserts it otherwise, the membership of
\* every other index is as before, and a second break resolving to i, right
\* after, brings back the membership there was before the first.
C12_BreakToggles ==
    [][(/\ break_line' >= 0 /\ BreakAt(break_line')
        /\ op' = "break" /\ mode' = "debug") =>
              LET i == statement_at_span(wrapping_sub1(break_line'))
              IN  /\ Members(breakpoints') =
                         IF i \in Members(breakpoints)
                         THEN Members(breakpoints) \ {i}
                         ELSE Members(breakpoints) \cup {i}
                  /\ Members(Toggle(breakpoints', i)) = Members(breakpoints)
                  /\ Len(breakpoints') = Cardinality(Members(breakpoints'))]_vars

\* Breakpoints on lines 1 and 2 of the scenario, then break 1 again: index 0
\* is removed, index 1 stays.
C12_Witness ==
    /\ content = Scenario /\ mode = "debug"
    /\ op = "break" /\ break_line = 1 /\ breakpoints = <<1>>

\* C13: an unknown command, a break whose argument is no number, a break on
\* line 0 or on a line past the end of the file, and a malformed set leave
\* pc, the registers and the breakpoints as they were, and the session goes
\* on accepting commands.
C13_UserErrorsAreNotFatal ==
    [][(RejectCmd \/ \E L \in BreakLines :
                         BreakAt(L) /\ (L = 0 \/ L > Len(code_lines))) =>
          /\ pc' = pc /\ registers' = registers /\ breakpoints' = breakpoints
          /\ mode' = "debug"]_vars

\* ------------------------------------------------- claims on the assembler

\* What a source text says, read off its lines alone.  A line is malformed
\* when its keyword is none of the five or an operand is missing or, for a
\* register, not a number.
Keywords == {"INC", "DEC", "IS_ZERO", "JUMP", "STOP"}

Malformed(line) ==
    /\ line # <<>>
    /\ line[1].pre = ""
    /\ \/ line[1].body \notin Keywords
       \/ /\ line[1].body \in {"INC", "DEC", "IS_ZERO"}
          /\ (Len(line) < 2 \/ ParseUsize(line[2]) < 0)
       \/ line[1].body = "IS_ZERO" /\ Len(line) < 3
       \/ line[1].body = "JUMP" /\ Len(line) < 2

\* The branch operand of a well-formed JUMP or IS_ZERO line.
IsBranch(line) ==
    line # <<>> /\ line[1] \in {W("JUMP"), W("IS_ZERO")} /\ ~Malformed(line)
Operand(line) == IF line[1] = W("JUMP") THEN line[2] ELSE line[3]

\* The instruction index of the next instruction emitted at line n: the
\* number of instruction lines before it.
Emitted(text, n) == Cardinality({k \in 1..(n - 1) : InstructionLine(text, k)})

\* The lines that define the label.
Definitions(text, name) ==
    {n \in 1..Len(text) : text[n] # <<>> /\ text[n][1] = Tok(".", name)}

\* Line k is a branch whose target names no instruction: a number that is not
\* the line number of an instruction line, or a label defined nowhere.
BadLineRef(text, k) ==
    /\ IsBranch(text[k])
    /\ ParseUsize(Operand(text[k])) >= 0
    /\ ~InstructionLine(text, ParseUsize(Operand(text[k])))

BadLabelRef(text, k) ==
    /\ IsBranch(text[k])
    /\ ParseUsize(Operand(text[k])) < 0
    /\ Definitions(text, Operand(text[k]).body) = {}

Unresolvable(text, k) == BadLineRef(text, k) \/ BadLabelRef(text, k)
Erroneous(text, k) == Malformed(text[k]) \/ Unresolvable(text, k)

\* Line k holds the error assembly meets first: no line is malformed and no
\* line before k has an unresolvable target.
MetFirst(text, k) ==
    /\ \A n \in 1..Len(text) : ~Malformed(text[n])
    /\ \A n \in 1..(k - 1) : ~Unresolvable(text, n)

\* The assembly of content has produced a Program / a diagnostic.
Assembled == mode = "debug"
Failed == mode = "load" /\ diag # NoDiag

\* The source line instruction j (from 1) was assembled from.
SourceOf(j) == code_lines[span[j] + 1]

\* C14: in a produced Program, when instruction i comes from source line L,
\* every JUMP L and IS_ZERO r L of the source has the target i.
C14_LineNumberRoundTrip ==
    Assembled =>
        \A i, j \in 1..Len(stmts) :
            (/\ IsBranch(SourceOf(j))
             /\ ParseUsize(Operand(SourceOf(j))) = line_number(span[i])) =>
                (stmts[j].op \in {"Jump", "IsZero"} /\ stmts[j].index = i - 1)

\* A JUMP to line 3, the line of the second instruction, behind a comment.
C14_Witness ==
    /\ Assembled /\ content = <<INC0, COMMENT, JMP(3)>>
    /\ span = <<0, 2>> /\ stmts[2] = Stmt("Jump", 0, 1)

\* C15: a numeric branch target N that is not the line number of an
\* instruction line (a blank, comment or label line, 0, a line past the end)
\* never yields a Program, and the diagnostic is the line-reference-out-of-
\* bounds one, naming N, on the 1-based line of the referencing instruction,
\* when this is the error assembly meets first.
C15_LineRefOutOfBounds ==
    (mode # "read") =>
        \A k \in 1..Len(content) :
            BadLineRef(content, k) =>
                /\ Failed /\ stmts = <<>> /\ span = <<>>
                /\ MetFirst(content, k) =>
                       diag = [line |-> k, inner |-> "OutOfBoundsLineRef",
                               num |-> ParseUsize(Operand(content[k])),
                               str |-> ""]

\* JUMP 2 on line 1, line 2 blank: the diagnostic is on line 1 and names 2.
C15_Witness ==
    /\ content = <<JMP(2), BLANK, STOP>> /\ Failed
    /\ diag = [line |-> 1, inner |-> "OutOfBoundsLineRef", num |-> 2, str |-> ""]

\* C16: a branch to a label has for target the number of instruction lines
\* before the line that defines the label (the last such line when there are
\* several), whether the branch stands before or after it, so blank, comment
\* and label lines do not count; a branch to a label defined nowhere never
\* yields a Program, and the diagnostic is the label-not-found one on the
\* referencing line when this is the error assembly meets first.
C16_LabelIsNextInstruction ==
    /\ Assembled =>
           \A j \in 1..Len(stmts) :
               (IsBranch(SourceOf(j)) /\ ParseUsize(Operand(SourceOf(j))) < 0) =>
                   LET defs == Definitions(code_lines, Operand(SourceOf(j)).body)
                   IN  /\ defs # {}
                       /\ stmts[j].index = Emitted(code_lines, Max(defs))
    /\ (mode # "read") =>
           \A k \in 1..Len(content) :
               BadLabelRef(content, k) =>
                   /\ Failed /\ stmts = <<>> /\ span = <<>>
                   /\ MetFirst(content, k) =>
                          diag = [line |-> k, inner |-> "LabelNotFound",
                                  num |-> 0, str |-> Operand(content[k]).body]

\* A forward reference: the label stands before the instruction of index 1.
C16_Witness ==
    /\ Assembled /\ content = <<JMPa, LABELa, INC0>>
    /\ stmts = <<Stmt("Jump", 0, 1), Stmt("Inc", 0, 0)>>

\* C17: a branch operand that is a number is resolved as a line number, also
\* when the source defines a label of that name: the target is the index of
\* the instruction of that line, and without such an instruction assembly
\* fails, label or not; an operand that is no number is resolved as a label.
C17_NumberIsNeverALabel ==
    /\ Assembled =>
           \A j \in 1..Len(stmts) :
               IsBranch(SourceOf(j)) =>
                   LET operand == Operand(SourceOf(j))
                       N == ParseUsize(operand)
                   IN  IF N >= 0
                       THEN /\ InstructionLine(code_lines, N)
                            /\ stmts[j].index = Emitted(code_lines, N)
                       ELSE /\ Definitions(code_lines, operand.body) # {}
                            /\ stmts[j].index =
                                   Emitted(code_lines,
                                           Max(Definitions(code_lines, operand.body)))
    /\ (mode # "read") =>
           \A k \in 1..Len(content) :
               (/\ IsBranch(content[k])
                /\ ParseUsize(Operand(content[k])) >= 0
                /\ Definitions(content, Operand(content[k]).body) # {}
                /\ ~InstructionLine(content, ParseUsize(Operand(content[k])))) =>
                   /\ Failed
                   /\ MetFirst(content, k) =>
                          (/\ diag.inner = "OutOfBoundsLineRef"
                           /\ diag.num = ParseUsize(Operand(content[k])))

\* JUMP 1 in a source where the label 1 is bound to index 1: the target is
\* index 0, the instruction of line 1.
C17_Witness ==
    /\ Assembled /\ content = <<INC0, <<Tok(".", "1")>>, JMP(1)>>
    /\ stmts = <<Stmt("Inc", 0, 0), Stmt("Jump", 0, 0)>>

\* The operation an instruction line spells.
OpOf(line) ==
    CASE line[1].body = "INC" -> "Inc"
      [] line[1].body = "DEC" -> "Dec"
      [] line[1].body = "IS_ZERO" -> "IsZero"
      [] line[1].body = "JUMP" -> "Jump"
      [] line[1].body = "STOP" -> "Stop"
      [] OTHER -> "None"

\* C18: in a produced Program span is as long as stmts, and span[i] is the
\* zero-based index of the line instruction i was assembled from: the i-th
\* of the lines that are not blank, comment or label definition, in order,
\* and the line that spells instruction i.
C18_SpanAlignedWithStmts ==
    Assembled =>
        /\ Len(span) = Len(stmts)
        /\ Len(stmts) =
               Cardinality({n \in 1..Len(code_lines) : InstructionLine(code_lines, n)})
        /\ code_lines = content
        /\ \A i \in 1..Len(span) :
               /\ InstructionLine(code_lines, line_number(span[i]))
               /\ Emitted(code_lines, line_number(span[i])) = i - 1
               /\ stmts[i].op = OpOf(SourceOf(i))
               /\ stmts[i].op \in {"Inc", "Dec", "IsZero"} =>
                      stmts[i].r = ParseUsize(SourceOf(i)[2])

\* Two instructions around a blank line.
C18_Witness ==
    /\ Assembled /\ content = <<DEC0, BLANK, INC1>>
    /\ span = <<0, 2>> /\ stmts = <<Stmt("Dec", 0, 0), Stmt("Inc", 1, 0)>>

\* C19: assembly yields a Program or a diagnostic, never both and never a
\* part of either: when it fails there is no Vm, the load loop takes the next
\* load command, and step is only ever called on the Program the whole text
\* last read assembled to.
C19_AssemblyIsAllOrNothing ==
    /\ [][Assemble =>
             IF \E k \in 1..Len(content) : Erroneous(content, k)
             THEN /\ diag' # NoDiag /\ mode' = "load"
                  /\ code_lines' = <<>> /\ stmts' = <<>> /\ span' = <<>>
                  /\ pc' = 0 /\ registers' = <<>> /\ breakpoints' = <<>>
             ELSE /\ diag' = NoDiag /\ mode' = "debug"
                  /\ code_lines' = content
                  /\ Len(stmts') =
                         Cardinality({n \in 1..Len(content) :
                                         InstructionLine(content, n)})
                  /\ pc' = 0 /\ breakpoints' = <<>>
                  /\ \A i \in 1..Len(registers') : registers'[i] = 0]_vars
    /\ [][StepCalled =>
             /\ diag = NoDiag
             /\ \A k \in 1..Len(content) : ~Erroneous(content, k)
             /\ code_lines = content
             /\ Len(stmts) =
                    Cardinality({n \in 1..Len(content) :
                                    InstructionLine(content, n)})]_vars
    /\ [](Failed => (stmts = <<>> /\ ENABLED ReadFile /\ ~ENABLED C10_Command
                        /\ ~ENABLED RunLoop))

\* The load of a text with an undefined label has failed; the load loop has
\* its prompt and no Vm.
C19_Witness ==
    /\ Failed /\ content = <<INC0, JMPa>> /\ diag.inner = "LabelNotFound"
    /\ diag.line = 2 /\ stmts = <<>> /\ registers = <<>>

\* The lowest-numbered erroneous line / malformed line / line with an
\* unresolvable target of the text.
LowestErroneous(text) ==
    CHOOSE k \in 1..Len(text) :
        Erroneous(text, k) /\ \A n \in 1..(k - 1) : ~Erroneous(text, n)
LowestMalformed(text) ==
    CHOOSE k \in 1..Len(text) :
        Malformed(text[k]) /\ \A n \in 1..(k - 1) : ~Malformed(text[n])
LowestUnresolvable(text) ==
    CHOOSE k \in 1..Len(text) :
        Unresolvable(text, k) /\ \A n \in 1..(k - 1) : ~Unresolvable(text, n)

\* C20 (as claimed): the diagnostic of a failed assembly is on the
\* lowest-numbered erroneous line of the text.
C20_DiagnosticOnLowestErroneousLine ==
    Failed => diag.line = LowestErroneous(content)

\* C20 (amended): assembly fails exactly when a line is erroneous, with one
\* diagnostic: on the lowest-numbered malformed line (illegal keyword,
\* operand missing or register not a number) when there is one, whichever
\* targets are unresolvable on the lines before it, and otherwise on the
\* lowest-numbered line whose line reference or label is unresolvable.
C20_DiagnosticOnFirstErrorMet ==
    (mode # "read") =>
        /\ Failed <=> \E k \in 1..Len(content) : Erroneous(content, k)
        /\ Failed =>
               IF \E k \in 1..Len(content) : Malformed(content[k])
               THEN /\ diag.line = LowestMalformed(content)
                    /\ diag.inner \in {"IllegalStmt", "NoRegister",
                                       "ParseIntErr", "NoLabelOrLine"}
               ELSE /\ diag.line = LowestUnresolvable(content)
                    /\ diag.inner \in {"OutOfBoundsLineRef", "LabelNotFound"}

\* An unresolvable line reference on line 1 and an illegal keyword on line
\* 2: the diagnostic is the one of line 2.
C20_Witness ==
    /\ Failed /\ content = <<JMP(0), ILLEGAL>>
    /\ diag = [line |-> 2, inner |-> "IllegalStmt", num |-> 0, str |-> "FOO"]

\* --------------------------------------------- claims on the machine state

\* The registers the instruction lines of a text name.
RegistersNamed(text) ==
    {ParseUsize(text[n][2]) :
        n \in {k \in 1..Len(text) :
                  /\ InstructionLine(text, k)
                  /\ text[k][1].body \in {"INC", "DEC", "IS_ZERO"}}}

\* C21: every load that assembles starts on a fresh machine state: pc 0, the
\* registers 0 to the greatest register the program names (register 0 alone
\* when it names none), all zero, and no breakpoint; nothing of the Vm of the
\* program loaded before is left when run has returned.
C21_LoadStartsFresh ==
    /\ [][(Assemble /\ mode' = "debug") =>
             /\ pc' = 0
             /\ breakpoints' = <<>>
             /\ DOMAIN registers' = 1..(Max({0} \cup RegistersNamed(content)) + 1)
             /\ \A i \in DOMAIN registers' : registers'[i] = 0]_vars
    /\ [][(mode = "ended" /\ mode' # "ended") =>
             (pc' = 0 /\ registers' = <<>> /\ breakpoints' = <<>> /\ stmts' = <<>>)]_vars

\* A program naming register 1 has just been loaded: two registers, zero.
C21_Witness ==
    /\ mode = "debug" /\ op = "load" /\ content = <<INC0, INC1, JMP(1)>>
    /\ pc = 0 /\ registers = <<0, 0>> /\ breakpoints = <<>>

\* C22: set r v with r among the registers makes registers[r] = v and leaves
\* pc, the breakpoints and every other register as they were; a break command
\* changes nothing but the breakpoints; register, program, help and break
\* without argument change nothing of the machine state.
C22_CommandsChangeOnlyTheirOwn ==
    /\ [][\A r \in SetRegisters, v \in SetValues :
             (op' = "set" /\ r < Len(registers) /\ SetTo(r, v)) =>
                 /\ mode' = "debug"
                 /\ DOMAIN registers' = DOMAIN registers
                 /\ \A i \in DOMAIN registers :
                        registers'[i] = IF i = r + 1 THEN v ELSE registers[i]
                 /\ pc' = pc /\ breakpoints' = breakpoints
                 /\ UNCHANGED <<code_lines, stmts, span>>]_vars
    /\ [][(break_line' >= 0 /\ BreakAt(break_line') /\ mode' = "debug") =>
             (pc' = pc /\ registers' = registers
                 /\ UNCHANGED <<code_lines, stmts, span>>)]_vars
    /\ [][InspectCmd =>
             (mode' = "debug" /\ pc' = pc /\ registers' = registers
                 /\ breakpoints' = breakpoints
                 /\ UNCHANGED <<code_lines, stmts, span>>)]_vars

\* set 1 <greatest value> after a step of INC 1 / DEC 0: register 0 and pc
\* are as the step left them.
C22_Witness ==
    /\ mode = "debug" /\ op = "set" /\ content = <<INC1, DEC0>>
    /\ pc = 1 /\ registers = <<0, UsizeMax>> /\ breakpoints = <<>>

\* The run of the scenario from the fresh state, without breakpoints.
C23_Run ==
    /\ content = Scenario /\ op = "continue"
    /\ runStart.pc = 0 /\ runStart.registers = <<0>>
    /\ runStart.breakpoints = <<>>

\* C23: INC 0 / IS_ZERO 0 4 / DEC 0 / STOP assembles to four instructions,
\* the target of IS_ZERO being index 3; run from pc 0 without breakpoints
\* goes through pc 0, 1, 2, 3 in this order, registers[0] being 1 after INC,
\* the branch not taken, 0 after DEC, and returns Stop with pc = 3 and
\* registers[0] = 0.
C23_ScenarioRunsToStop ==
    /\ [][(Assemble /\ content = Scenario) =>
             /\ mode' = "debug"
             /\ stmts' = <<Stmt("Inc", 0, 0), Stmt("IsZero", 0, 3),
                           Stmt("Dec", 0, 0), Stmt("Stop", 0, 0)>>
             /\ span' = <<0, 1, 2, 3>>]_vars
    /\ []((C23_Run /\ mode = "run") =>
             <<pc, registers>> \in {<<0, <<0>>>>, <<1, <<1>>>>, <<2, <<1>>>>,
                                    <<3, <<0>>>>})
    /\ [][(RunLoop /\ C23_Run) =>
             IF pc = 3
             THEN /\ result' = "Stop" /\ mode' = "ended"
                  /\ pc' = 3 /\ registers' = <<0>>
             ELSE /\ result' = "Run" /\ mode' = "run" /\ pc' = pc + 1]_vars

\* The run of the scenario has returned Stop.
C23_Witness ==
    /\ C23_Run /\ mode = "ended" /\ result = "Stop" /\ prevPc = 3
    /\ pc = 3 /\ registers = <<0>>

\* C24: print_program never reads code_lines out of range.  With pc a valid
\* instruction index, s its span and n the number of lines of the file, it
\* prints the lines max(0, s - 5) .. min(n, s + 6) - 1 and no other, each
\* with its 1-based number: at most 11 lines, line s among them and the only
\* one marked.  With pc >= number of instructions it prints that the end of
\* the program was reached and reads no span.
C24_WindowIsClipped ==
    /\ (op = "inspect") => mode = "debug"
    /\ (out # NoOut) =>
           IF pc < Len(stmts)
           THEN LET s == span[pc + 1]
                    n == Len(content)
                    from == IF s - 5 > 0 THEN s - 5 ELSE 0
                    to == (IF s + 6 < n THEN s + 6 ELSE n) - 1
                IN  /\ out.kind = "window"
                    /\ InstructionLine(content, s + 1)
                    /\ Len(out.lines) = to - from + 1
                    /\ Len(out.lines) <= 11
                    /\ from <= s /\ s <= to /\ to < n
                    /\ \A k \in 1..Len(out.lines) :
                           /\ out.lines[k].number = from + k
                           /\ out.lines[k].text = content[from + k]
                           /\ out.lines[k].marked <=> (from + k - 1 = s)
           ELSE out = [kind |-> "end", lines |-> <<>>]

\* A window of 11 lines clipped on neither side, inside a longer file: lines
\* before it and after it are not shown.
C24_Witness ==
    /\ op = "inspect" /\ out.kind = "window" /\ Len(out.lines) = 11
    /\ out.lines[1].number > 1
    /\ out.lines[11].number < Len(code_lines)
    /\ out.lines[6].marked

\* C25: every index used on the register array is one of the allocated
\* registers: the register of the Inc, Dec or IsZero that step executes, and
\* the register of every set command, whatever number it is given.
C25_RegisterIndicesInRange ==
    [][/\ (StepCalled /\ At({"Inc", "Dec", "IsZero"})) =>
              stmts[pc + 1].r < Len(registers)
       /\ \A r \in SetRegisters, v \in SetValues :
              (op' = "set" /\ SetTo(r, v)) =>
                  (r < Len(registers) /\ mode' = "debug")]_vars

\* C26: the breakpoints of a session hold no index twice and only indices of
\* instructions, 0 <= b < number of instructions, whatever break, set, step
\* and continue commands came before.
C26_BreakpointsAreDistinctIndices ==
    \A i \in 1..Len(breakpoints) :
        /\ 0 <= breakpoints[i] /\ breakpoints[i] < Len(stmts)
        /\ \A j \in 1..Len(breakpoints) :
               (breakpoints[j] = breakpoints[i]) => j = i

\* Three breakpoints in the scenario, and a continue that stopped at one.
C26_Witness ==
    /\ content = Scenario /\ mode = "debug" /\ op = "continue"
    /\ result = "Break" /\ Len(breakpoints) = 3

\* C27: a step changes no register but the one named by the instruction at
\* the old pc, by +1 for Inc and by -1 for Dec (in the arithmetic of usize,
\* where a step that returns has wrapped); IsZero, Jump and Stop change no
\* register; step and run leave the breakpoints, the instructions and the
\* spans as they are.
C27_StepChangesOneRegister ==
    [][StepCalled =>
          /\ breakpoints' = breakpoints
          /\ UNCHANGED <<stmts, span, code_lines>>
          /\ DOMAIN registers' = DOMAIN registers
          /\ \A i \in DOMAIN registers :
                 registers'[i] =
                     IF result' # "Panic" /\ At({"Inc"}) /\ i = stmts[pc + 1].r + 1
                     THEN (registers[i] + 1) % (UsizeMax + 1)
                     ELSE IF result' # "Panic" /\ At({"Dec"})
                                /\ i = stmts[pc + 1].r + 1
                     THEN (registers[i] + UsizeMax) % (UsizeMax + 1)
                     ELSE registers[i]]_vars

\* INC 1 stepped after set 0 1: register 1 went up by one, register 0 kept
\* its value.
C27_Witness ==
    /\ content = <<INC1, DEC0>> /\ mode = "debug" /\ op = "step"
    /\ prevPc = 0 /\ pc = 1 /\ registers = <<1, 1>>

\* Every IsZero and Jump of the Program has a target greater than its index.
C28_ForwardOnly ==
    \A i \in 1..Len(stmts) :
        stmts[i].op \in {"IsZero", "Jump"} => stmts[i].index > i - 1

\* step called from (p, regs) until it returns something else than Run, at
\* most fuel times: the last state returned.
RECURSIVE C28_Run(_, _, _)
C28_Run(p, regs, fuel) ==
    LET o == step(p, regs)
    IN  IF o.state # "Run" \/ fuel <= 1 THEN o.state
        ELSE C28_Run(o.pc, o.registers, fuel - 1)

\* C28: in a Program with forward branches only, a run called with any pc,
\* registers and breakpoints returns Break, Stop or OutOfBounds after at most
\* number of instructions + 1 steps; each step that does not return moves
\* pc forward.
C28_ForwardRunReturns ==
    /\ []((mode = "debug" /\ C28_ForwardOnly) =>
             C28_Run(pc, registers, Len(stmts) + 1)
                 \in {"Break", "Stop", "OutOfBounds"})
    /\ [][(RunLoop /\ C28_ForwardOnly) =>
             /\ result' \in {"Run", "Break", "Stop", "OutOfBounds"}
             /\ result' = "Run" => (pc' > pc /\ pc' <= Len(stmts))]_vars

====
